---------------------------- MODULE Spec2Model ----------------------------
(***************************************************************************)
(* Model of the option-chain updater of option4futures/Kite:               *)
(*   src/fetch_data.py        the update routine (one process run)         *)
(*   src/continuous_runner.py the scheduler loop that launches it          *)
(*                                                                         *)
(* The spreadsheet is a sequence of rows, a row a sequence of cells, and a *)
(* cell the text the store returns for it: a sequence of one-character     *)
(* strings.  Numbers written by the routine are formatted to text by the   *)
(* store and parsed back by float()/int() on the next cycle.               *)
(***************************************************************************)
EXTENDS Integers, Sequences, FiniteSets, TLC

(***************************************************************************)
(* Text of cells                                                           *)
(***************************************************************************)
DigitChars == <<"0", "1", "2", "3", "4", "5", "6", "7", "8", "9">>

IsDigit(c) == \E i \in 1..10 : DigitChars[i] = c

DigitVal(c) == (CHOOSE i \in 1..10 : DigitChars[i] = c) - 1

RECURSIVE NatToStr(_)
NatToStr(n) ==
    IF n < 10 THEN <<DigitChars[n + 1]>>
    ELSE NatToStr(n \div 10) \o <<DigitChars[(n % 10) + 1]>>

\* The text the store shows for an integer-valued number (50 -> "50",
\* -5 -> "-5", the float strike 100.0 -> "100").
IntToStr(n) == IF n < 0 THEN <<"-">> \o NatToStr(0 - n) ELSE NatToStr(n)

RECURSIVE DigitsVal(_)
DigitsVal(s) ==
    IF s = <<>> THEN 0
    ELSE 10 * DigitsVal(SubSeq(s, 1, Len(s) - 1)) + DigitVal(s[Len(s)])

AllDigits(s) == \A i \in 1..Len(s) : IsDigit(s[i])

HasSign(s) == Len(s) > 0 /\ s[1] \in {"-", "+"}

Unsigned(s) == IF HasSign(s) THEN SubSeq(s, 2, Len(s)) ELSE s

Bad == [ok |-> FALSE, v |-> 0]

Good(n) == [ok |-> TRUE, v |-> n]

Signed(s, n) == IF HasSign(s) /\ s[1] = "-" THEN 0 - n ELSE n

\* int(text): an optional sign and at least one digit, else ValueError.
ParseInt(s) ==
    LET u == Unsigned(s) IN
    IF Len(u) > 0 /\ AllDigits(u) THEN Good(Signed(s, DigitsVal(u))) ELSE Bad

\* Position of the decimal point, 0 when there is none.
DotPos(u) ==
    IF \E i \in 1..Len(u) : u[i] = "."
    THEN CHOOSE i \in 1..Len(u) : u[i] = "." /\ \A j \in 1..(i - 1) : u[j] # "."
    ELSE 0

\* float(text) for the texts of the model: an optional sign, digits, and an
\* optional fraction of zeros ("100", "100.0"); anything else is ValueError.
ParseFloat(s) ==
    LET u == Unsigned(s)
        d == DotPos(u)
        whole == IF d = 0 THEN u ELSE SubSeq(u, 1, d - 1)
        frac == IF d = 0 THEN <<>> ELSE SubSeq(u, d + 1, Len(u))
    IN  IF Len(whole) > 0 /\ AllDigits(whole)
           /\ \A i \in 1..Len(frac) : frac[i] = "0"
        THEN Good(Signed(s, DigitsVal(whole)))
        ELSE Bad

\* Column labels.
LStrike == <<"S", "t", "r", "i", "k", "e">>
LCallOI == <<"C", "a", "l", "l", " ", "O", "I">>
LPutOI == <<"P", "u", "t", " ", "O", "I">>
LCallLTP == <<"C", "a", "l", "l", " ", "L", "T", "P">>
LCallChgOI == <<"C", "a", "l", "l", " ", "C", "h", "g", " ", "O", "I">>
LCallVol == <<"C", "a", "l", "l", " ", "V", "o", "l">>
LExpiry == <<"E", "x", "p", "i", "r", "y">>
LPutLTP == <<"P", "u", "t", " ", "L", "T", "P">>
LPutChgOI == <<"P", "u", "t", " ", "C", "h", "g", " ", "O", "I">>
LPutVol == <<"P", "u", "t", " ", "V", "o", "l">>
LVWAP == <<"V", "W", "A", "P">>


(***************************************************************************)
(* Clock: time is counted in ticks, TicksPerMinute to the minute, from     *)
(* Monday 00:00 IST, and wraps after a week.                               *)
(***************************************************************************)
TicksPerMinute == 3

TicksPerDay == 24 * 60 * TicksPerMinute

TicksPerWeek == 7 * TicksPerDay

\* datetime.time(h, m) as a tick of the day
TimeOf(h, m) == (h * 60 + m) * TicksPerMinute

\* now.weekday(): Monday is 0, Sunday is 6
Weekday(t) == t \div TicksPerDay

\* now.time()
TimeOfDay(t) == t % TicksPerDay

At(d, h, m) == d * TicksPerDay + TimeOf(h, m)

(***************************************************************************)
(* src/fetch_data.py: configuration and the two external services          *)
(***************************************************************************)
E1 == "2026-01-15"

E2 == "2026-01-22"

\* The text of an expiry date, as written to the Expiry column.
DateText(e) ==
    IF e = E1 THEN <<"2", "0", "2", "6", "-", "0", "1", "-", "1", "5">>
    ELSE <<"2", "0", "2", "6", "-", "0", "1", "-", "2", "2">>

Inst(tok, nm, e, k, typ) ==
    [instrument_token |-> tok, name |-> nm, expiry |-> e, strike |-> k,
     instrument_type |-> typ]

\* A deployment: the EXPIRIES list and the contracts the exchange segment
\* lists (what kite.instruments("BFO") returns).  The first is the EXPIRIES
\* of the source with the catalog of the worked example, listed out of
\* strike order; the second configures two expiries.
Configs ==
    { [EXPIRIES |-> << <<E1, "SENSEX_Exp_1">> >>,
       listed |-> << Inst(3, "SENSEX", E1, 110, "CE"),
                     Inst(4, "BANKEX", E1, 100, "CE"),
                     Inst(1, "SENSEX", E1, 100, "CE"),
                     Inst(5, "SENSEX", E2, 100, "PE"),
                     Inst(2, "SENSEX", E1, 100, "PE") >>],
      [EXPIRIES |-> << <<E1, "SENSEX_Exp_1">>, <<E2, "SENSEX_Exp_2">> >>,
       listed |-> << Inst(1, "SENSEX", E1, 100, "CE"),
                     Inst(6, "SENSEX", E2, 0, "FUT"),
                     Inst(5, "SENSEX", E2, 100, "PE") >>] }

SheetNames == {"SENSEX_Exp_1", "SENSEX_Exp_2"}

\* Open interest the provider may report for a contract.
QuotedOI(tok) ==
    CASE tok = 1 -> {50, 45}
      [] tok = 2 -> {30}
      [] tok = 3 -> {20}
      [] OTHER -> {15}

Raised == [status |-> "error", q |-> [volume |-> 0]]

Returned(q) == [status |-> "ok", q |-> q]

\* What kite.quote(token) may do: raise, or return a quote; a quote may lack
\* "oi" (then .get gives 0) or "last_price" (then q["last_price"] raises).
Responses(tok) ==
    {Raised}
      \cup {Returned([last_price |-> 7, oi |-> o, volume |-> 3]) : o \in QuotedOI(tok)}
      \cup {Returned([last_price |-> 7, volume |-> 3])}
      \cup {Returned([oi |-> 15, volume |-> 3])}

\* dict.get(key, default)
Get(d, key, default) == IF key \in DOMAIN d THEN d[key] ELSE default

\* Values of the environment variables: unset (None), set to "", or set.
EnvValues == {"unset", "empty", "set"}

\* Python truthiness of an environment value
Truthy(v) == v = "set"

\* headers_row (lines 167-172)
headers_row ==
    <<LCallLTP, LCallOI, LCallChgOI, LCallVol, LStrike, LExpiry,
      LPutLTP, LPutOI, LPutChgOI, LPutVol, LVWAP>>

\* A table value: a number or a string, before the store formats it.
Num(n) == [t |-> "num", n |-> n, s |-> <<>>]

Str(s) == [t |-> "str", n |-> 0, s |-> s]

\* The text the store returns for a value written to a cell.
Format(v) == IF v.t = "num" THEN IntToStr(v.n) ELSE v.s

FormatRow(r) == [i \in 1..Len(r) |-> Format(r[i])]

\* Contents a worksheet may have before the first run: an empty one, one
\* whose first row lacks "Put OI", the prior table of the worked example in
\* the routine's own layout, and a table in another column order with an
\* unparsable row and an empty OI cell.
InitTables ==
    { <<>>,
      << <<LStrike, LCallOI>>, <<IntToStr(100), IntToStr(40)>> >>,
      << headers_row,
         <<IntToStr(7), IntToStr(40), IntToStr(40), IntToStr(3), IntToStr(100),
           DateText(E1), IntToStr(7), IntToStr(25), IntToStr(25), IntToStr(3), <<>> >> >>,
      << <<LStrike, LPutOI, LCallOI>>,
         <<IntToStr(100), IntToStr(25), <<"x">> >>,
         <<IntToStr(110), IntToStr(9), <<>> >> >> }

\* A worksheet of the workbook: absent, or present with its cells.
InitSheets ==
    {[exists |-> FALSE, cells |-> <<>>]}
      \cup {[exists |-> TRUE, cells |-> t] : t \in InitTables}

(***************************************************************************)
(* The store's operations on a worksheet's cells                           *)
(***************************************************************************)
Max(S) == CHOOSE x \in S : \A y \in S : y <= x

Width(cells) == IF cells = <<>> THEN 0 ELSE Max({Len(cells[i]) : i \in 1..Len(cells)})

PadRow(r, w) == [j \in 1..w |-> IF j <= Len(r) THEN r[j] ELSE <<>>]

\* sheet.get_all_values(): every row, padded with "" to the widest row
get_all_values(cells) == [i \in 1..Len(cells) |-> PadRow(cells[i], Width(cells))]

\* Mutant of batch_clear: nothing is cleared.
batch_clear_nothing(cells) == cells

\* sheet.batch_clear(["A2:Z1000"]): the data rows go, row 1 stays
batch_clear(cells) == IF cells = <<>> THEN <<>> ELSE <<cells[1]>>

\* Writing the cells of new over the row old, from column A
Overlay(new, old) ==
    [j \in 1..Max({Len(new), Len(old)}) |-> IF j <= Len(new) THEN new[j] ELSE old[j]]

\* sheet.update("A1:K1", [row]) when n = 1, sheet.update("A2:K<n+1>", rows)
\* otherwise: block is written from row `first` on, other rows are kept.
update(cells, first, block) ==
    LET last == first + Len(block) - 1
        n == Max({Len(cells), last})
    IN  [i \in 1..n |->
            IF i >= first /\ i <= last
            THEN Overlay(block[i - first + 1], IF i <= Len(cells) THEN cells[i] ELSE <<>>)
            ELSE IF i <= Len(cells) THEN cells[i] ELSE <<>>]

(***************************************************************************)
(* Loading the previous open interest (lines 79-96)                        *)
(***************************************************************************)
EmptyDict == [x \in {} |-> 0]

\* d[key] = value
Put(d, key, value) ==
    [x \in (DOMAIN d) \cup {key} |-> IF x = key THEN value ELSE d[x]]

\* "label in headers"
Contains(headers, label) == \E i \in 1..Len(headers) : headers[i] = label

\* headers.index(label); 0 stands for the ValueError of an absent label
Index(headers, label) ==
    IF Contains(headers, label)
    THEN CHOOSE i \in 1..Len(headers) :
            headers[i] = label /\ \A j \in 1..(i - 1) : headers[j] # label
    ELSE 0

\* int(cell) if cell else 0
OiCell(cell) == IF cell # <<>> THEN ParseInt(cell) ELSE Good(0)

\* The body of the try of lines 90-96 for one row: the dict with the row's
\* entry, or the dict unchanged when float() or int() raises.
LoadRow(d, row, strike_col, call_oi_col, put_oi_col) ==
    LET strike == ParseFloat(row[strike_col])
        call_oi == OiCell(row[call_oi_col])
        put_oi == OiCell(row[put_oi_col])
    IN  IF strike.ok /\ call_oi.ok /\ put_oi.ok
        THEN Put(d, strike.v, [call |-> call_oi.v, put |-> put_oi.v])
        ELSE d

RECURSIVE LoadRows(_, _, _, _, _, _)
LoadRows(d, values, i, strike_col, call_oi_col, put_oi_col) ==
    IF i > Len(values) THEN d
    ELSE LoadRows(LoadRow(d, values[i], strike_col, call_oi_col, put_oi_col),
                  values, i + 1, strike_col, call_oi_col, put_oi_col)

\* Mutant of HasLabels: the test for "Put OI" forgotten.
HasLabelsLoose(headers) ==
    Contains(headers, LStrike) /\ Contains(headers, LCallOI)

\* if "Strike" in headers and "Call OI" in headers and "Put OI" in headers
HasLabels(headers) ==
    Contains(headers, LStrike) /\ Contains(headers, LCallOI) /\ Contains(headers, LPutOI)

\* Lines 81-96: prev_oi_dict, or raised when headers.index() raises (the
\* enclosing try of line 70 then catches it).
LoadPrevOI(values) ==
    IF values = <<>> THEN [raised |-> FALSE, d |-> EmptyDict]
    ELSE IF HasLabels(values[1])
         THEN LET strike_col == Index(values[1], LStrike)
                  call_oi_col == Index(values[1], LCallOI)
                  put_oi_col == Index(values[1], LPutOI)
              IN  IF strike_col = 0 \/ call_oi_col = 0 \/ put_oi_col = 0
                  THEN [raised |-> TRUE, d |-> EmptyDict]
                  ELSE [raised |-> FALSE,
                        d |-> LoadRows(EmptyDict, values, 2, strike_col,
                                       call_oi_col, put_oi_col)]
         ELSE [raised |-> FALSE, d |-> EmptyDict]

(***************************************************************************)
(* Folding one quote into the option chain (lines 117-138)                 *)
(***************************************************************************)
EmptyChainRow == [call |-> EmptyDict, put |-> EmptyDict]

\* prev_oi_dict.get(strike, {}).get(side, 0)
PrevOI(prev, strike, side) == IF strike \in DOMAIN prev THEN prev[strike][side] ELSE 0

\* Mutant of ChgOI: the operands swapped.
ChgOISwapped(oi, prev_oi) == prev_oi - oi

ChgOI(oi, prev_oi) == oi - prev_oi

SideEntry(q, prev, strike, side) ==
    [ltp |-> q["last_price"], oi |-> Get(q, "oi", 0),
     chg_oi |-> ChgOI(Get(q, "oi", 0), PrevOI(prev, strike, side)),
     vol |-> Get(q, "volume", 0)]

\* Mutant of Fold: the strike's entry is created anew for every quote
\* (the test of line 124 left out).
FoldAnew(chain, prev, inst, q) ==
    LET strike == inst.strike
        c0 == Put(chain, strike, EmptyChainRow)
    IN  IF inst.instrument_type = "CE"
        THEN [c0 EXCEPT ![strike].call = SideEntry(q, prev, strike, "call")]
        ELSE IF inst.instrument_type = "PE"
        THEN [c0 EXCEPT ![strike].put = SideEntry(q, prev, strike, "put")]
        ELSE c0

Fold(chain, prev, inst, q) ==
    LET strike == inst.strike
        c0 == IF strike \in DOMAIN chain THEN chain ELSE Put(chain, strike, EmptyChainRow)
    IN  IF inst.instrument_type = "CE"
        THEN [c0 EXCEPT ![strike].call = SideEntry(q, prev, strike, "call")]
        ELSE IF inst.instrument_type = "PE"
        THEN [c0 EXCEPT ![strike].put = SideEntry(q, prev, strike, "put")]
        ELSE c0

(***************************************************************************)
(* Preparing the rows (lines 145-162)                                      *)
(***************************************************************************)
\* sorted(keys): the keys in ascending order
RECURSIVE SortedSeq(_)
SortedSeq(S) ==
    IF S = {} THEN <<>>
    ELSE LET m == CHOOSE x \in S : \A y \in S : x <= y
         IN  <<m>> \o SortedSeq(S \ {m})

\* Mutant of VwapCell: a number in the place of the empty string.
VwapZero == Num(0)

\* line 161
VwapCell == Str(<<>>)

OutputRow(strike, data, expiry) ==
    <<Num(Get(data.call, "ltp", 0)), Num(Get(data.call, "oi", 0)),
      Num(Get(data.call, "chg_oi", 0)), Num(Get(data.call, "vol", 0)),
      Num(strike), Str(DateText(expiry)),
      Num(Get(data.put, "ltp", 0)), Num(Get(data.put, "oi", 0)),
      Num(Get(data.put, "chg_oi", 0)), Num(Get(data.put, "vol", 0)),
      VwapCell>>

StrikeOrder(chain) == SortedSeq(DOMAIN chain)

PrepareRows(chain, expiry) ==
    LET order == StrikeOrder(chain)
    IN  [i \in 1..Len(order) |-> OutputRow(order[i], chain[order[i]], expiry)]

\* nifty_options (lines 100-103)
FilterOptions(instruments, expiry) ==
    SelectSeq(instruments, LAMBDA i : i.name = "SENSEX" /\ i.expiry = expiry)

(***************************************************************************)
(* Market hours                                                            *)
(***************************************************************************)
\* fetch_data.py, line 32: the condition under which the routine exits
MarketClosed(t) ==
    ~(TimeOf(9, 10) <= TimeOfDay(t) /\ TimeOfDay(t) <= TimeOf(15, 35))
      \/ Weekday(t) >= 5

\* Mutant of is_market_open: the closing bound taken as exclusive.
is_market_open_exclusive(t) ==
    /\ Weekday(t) < 5
    /\ TimeOfDay(t) >= TimeOf(9, 7)
    /\ TimeOfDay(t) < TimeOf(15, 35)

\* continuous_runner.py, lines 8-14
is_market_open(t) ==
    /\ Weekday(t) < 5
    /\ TimeOfDay(t) >= TimeOf(9, 7)
    /\ TimeOfDay(t) <= TimeOf(15, 35)

\* Instants at which a run of the routine may start: Monday 08:59, 09:07,
\* 09:10, 15:35, one tick after 15:35, and Saturday 09:20.
InstantSamples ==
    {At(0, 8, 59), At(0, 9, 7), At(0, 9, 10), At(0, 15, 35), At(0, 15, 35) + 1,
     At(5, 9, 20)}

(***************************************************************************)
(* State                                                                   *)
(***************************************************************************)
VARIABLES
    EXPIRIES,         \* the configured (expiry, sheet name) pairs
    listed,           \* the contracts the exchange segment lists
    API_KEY, ACCESS_TOKEN, SHEET_ID,   \* environment values
    creds_file,       \* os.path.exists(GOOGLE_CREDS_PATH)
    sheets,           \* the workbook: sheet name -> worksheet
    now,              \* datetime.now(ist) of the run
    pc,               \* position of the routine
    calls,            \* services the run has called so far
    idx,              \* position in EXPIRIES
    successful, failed,
    existing_values, prev_oi_dict, nifty_options, k, option_chain,
    fetch_count, fetch_errors, rows,
    quotes,           \* what kite.quote answered in this cycle, by token
    outcome,          \* how the expiry just processed ended: "ok", or the
                      \* step that raised
    clock,            \* the scheduler's wall clock
    rpc,              \* position of the scheduler loop
    child,            \* the update process the scheduler launched
    launches          \* updates launched in the current iteration

env == <<EXPIRIES, listed, API_KEY, ACCESS_TOKEN, SHEET_ID, creds_file>>

counts == <<idx, successful, failed>>

locals ==
    <<existing_values, prev_oi_dict, nifty_options, k, option_chain,
      fetch_count, fetch_errors, rows, quotes>>

runner == <<clock, rpc, child, launches>>

routine == <<sheets, now, pc, calls, counts, locals, outcome>>

vars == <<env, routine, runner>>

expiry == EXPIRIES[idx][1]

sheet_name == EXPIRIES[idx][2]

sheet == sheets[sheet_name]

WithCells(cells) == [sheets EXCEPT ![sheet_name].cells = cells]

ResetLocals ==
    /\ existing_values' = <<>>
    /\ prev_oi_dict' = EmptyDict
    /\ nifty_options' = <<>>
    /\ k' = 0
    /\ option_chain' = EmptyDict
    /\ fetch_count' = 0
    /\ fetch_errors' = 0
    /\ rows' = <<>>
    /\ quotes' = EmptyDict

RoutineInit ==
    /\ \E c \in Configs : EXPIRIES = c.EXPIRIES /\ listed = c.listed
    /\ API_KEY \in EnvValues
    /\ ACCESS_TOKEN \in EnvValues
    /\ SHEET_ID \in {"unset", "set"}
    /\ creds_file \in BOOLEAN
    /\ sheets \in [SheetNames -> InitSheets]
    /\ \A n \in SheetNames :
          (\A i \in 1..Len(EXPIRIES) : EXPIRIES[i][2] # n)
             => sheets[n] = [exists |-> FALSE, cells |-> <<>>]
    /\ now \in InstantSamples
    /\ pc = "start"
    /\ calls = {}
    /\ idx = 0 /\ successful = 0 /\ failed = 0
    /\ existing_values = <<>>
    /\ prev_oi_dict = EmptyDict
    /\ nifty_options = <<>>
    /\ k = 0
    /\ option_chain = EmptyDict
    /\ fetch_count = 0
    /\ fetch_errors = 0
    /\ rows = <<>>
    /\ quotes = EmptyDict
    /\ outcome = "none"

RunnerIdle == clock = 0 /\ rpc = "off" /\ child = "none" /\ launches = 0

Init == RoutineInit /\ RunnerIdle

(***************************************************************************)
(* src/fetch_data.py: one run of the update routine                        *)
(***************************************************************************)
\* lines 26-35
MarketCheck ==
    /\ pc = "start"
    /\ pc' = IF MarketClosed(now) THEN "closed" ELSE "kite"
    /\ UNCHANGED <<env, sheets, now, calls, counts, locals, outcome, runner>>

\* Mutant of MissingKiteConfig: "and" for "or".
MissingBoth == ~Truthy(API_KEY) /\ ~Truthy(ACCESS_TOKEN)

\* line 40
MissingKiteConfig == ~Truthy(API_KEY) \/ ~Truthy(ACCESS_TOKEN)

\* lines 40-44: KiteConnect() and set_access_token() call nothing
SetupKite ==
    /\ pc = "kite"
    /\ pc' = IF MissingKiteConfig THEN "fatal" ELSE "sheets"
    /\ UNCHANGED <<env, sheets, now, calls, counts, locals, outcome, runner>>

\* lines 49-64: the credentials file may also fail to load
SetupSheets ==
    /\ pc = "sheets"
    /\ IF ~Truthy(SHEET_ID) \/ ~creds_file
       THEN pc' = "fatal"
       ELSE pc' \in {"loop", "fatal"}
    /\ idx' = 1 /\ successful' = 0 /\ failed' = 0
    /\ UNCHANGED <<env, sheets, now, calls, locals, outcome, runner>>

\* line 66: the next (expiry, sheet_name), or the end of the list.  The
\* locals of the previous iteration are all reassigned before their next
\* use; they are cleared here.
ForExpiry ==
    /\ pc = "loop"
    /\ pc' = IF idx > Len(EXPIRIES) THEN "summary" ELSE "open"
    /\ ResetLocals
    /\ outcome' = "none"
    /\ UNCHANGED <<env, sheets, now, calls, counts, runner>>

\* line 73
OpenSheet ==
    /\ pc = "open"
    /\ sheet.exists
    /\ calls' = calls \cup {"store"}
    /\ pc' = "read"
    /\ UNCHANGED <<env, sheets, now, counts, locals, outcome, runner>>

\* lines 74-77
AddWorksheet ==
    /\ pc = "open"
    /\ ~sheet.exists
    /\ calls' = calls \cup {"store"}
    /\ sheets' = [sheets EXCEPT ![sheet_name] = [exists |-> TRUE, cells |-> <<>>]]
    /\ pc' = "read"
    /\ UNCHANGED <<env, now, counts, locals, outcome, runner>>

\* lines 80-96
ReadSheet ==
    /\ pc = "read"
    /\ calls' = calls \cup {"store"}
    /\ existing_values' = get_all_values(sheet.cells)
    /\ LET loaded == LoadPrevOI(existing_values')
       IN  IF loaded.raised
           THEN /\ failed' = failed + 1
                /\ idx' = idx + 1
                /\ outcome' = "load"
                /\ pc' = "loop"
                /\ UNCHANGED <<prev_oi_dict, successful>>
           ELSE /\ prev_oi_dict' = loaded.d
                /\ pc' = "instruments"
                /\ UNCHANGED <<counts, outcome>>
    /\ UNCHANGED <<env, sheets, now, nifty_options, k, option_chain,
                   fetch_count, fetch_errors, rows, quotes, runner>>

\* lines 99-108
FetchInstruments ==
    /\ pc = "instruments"
    /\ calls' = calls \cup {"provider"}
    /\ nifty_options' = FilterOptions(listed, expiry)
    /\ option_chain' = EmptyDict
    /\ fetch_count' = 0
    /\ fetch_errors' = 0
    /\ k' = 1
    /\ pc' = "quote"
    /\ UNCHANGED <<env, sheets, now, counts, existing_values, prev_oi_dict, rows,
                   quotes, outcome, runner>>

\* Whether lines 114-138 run through for the response r
Fetched(r) == r.status = "ok" /\ "last_price" \in DOMAIN r.q

\* lines 110-143, one instrument
FetchQuote ==
    /\ pc = "quote"
    /\ k <= Len(nifty_options)
    /\ \E r \in Responses(nifty_options[k].instrument_token) :
          /\ quotes' = Put(quotes, nifty_options[k].instrument_token, r)
          /\ IF Fetched(r)
             THEN /\ option_chain' = Fold(option_chain, prev_oi_dict, nifty_options[k], r.q)
                  /\ fetch_errors' = fetch_errors
             ELSE /\ option_chain' = option_chain
                  /\ fetch_errors' = fetch_errors + 1
    /\ fetch_count' = fetch_count + 1
    /\ calls' = calls \cup {"provider"}
    /\ k' = k + 1
    /\ UNCHANGED <<env, sheets, now, pc, counts, existing_values, prev_oi_dict,
                   nifty_options, rows, outcome, runner>>

\* lines 145-162
BuildRows ==
    /\ pc = "quote"
    /\ k > Len(nifty_options)
    /\ rows' = PrepareRows(option_chain, expiry)
    /\ pc' = "clear"
    /\ UNCHANGED <<env, sheets, now, calls, counts, existing_values, prev_oi_dict,
                   nifty_options, k, option_chain, fetch_count, fetch_errors,
                   quotes, outcome, runner>>

\* line 175
BatchClear ==
    /\ pc = "clear"
    /\ calls' = calls \cup {"store"}
    /\ sheets' = WithCells(batch_clear(sheet.cells))
    /\ pc' = "header"
    /\ UNCHANGED <<env, now, counts, locals, outcome, runner>>

\* line 178
UpdateHeader ==
    /\ pc = "header"
    /\ calls' = calls \cup {"store"}
    /\ sheets' = WithCells(update(sheet.cells, 1, <<headers_row>>))
    /\ pc' = "rows"
    /\ UNCHANGED <<env, now, counts, locals, outcome, runner>>

\* lines 181-188
UpdateRows ==
    /\ pc = "rows"
    /\ IF rows # <<>>
       THEN /\ sheets' = WithCells(update(sheet.cells, 2,
                                          [i \in 1..Len(rows) |-> FormatRow(rows[i])]))
            /\ calls' = calls \cup {"store"}
       ELSE UNCHANGED <<sheets, calls>>
    /\ successful' = successful + 1
    /\ idx' = idx + 1
    /\ outcome' = "ok"
    /\ pc' = "loop"
    /\ UNCHANGED <<env, now, failed, locals, runner>>

\* Mutant of ExpiryFails: the failure is logged but not counted.
ExpiryFailsUncounted ==
    /\ pc \in {"open", "read", "instruments", "clear", "header", "rows"}
    /\ pc = "rows" => rows # <<>>
    /\ calls' = calls \cup {IF pc = "instruments" THEN "provider" ELSE "store"}
    /\ idx' = idx + 1
    /\ outcome' = pc
    /\ pc' = "loop"
    /\ UNCHANGED <<env, sheets, now, successful, failed, locals, runner>>

\* A call of the current step raises: lines 190-193
ExpiryFails ==
    /\ pc \in {"open", "read", "instruments", "clear", "header", "rows"}
    /\ pc = "rows" => rows # <<>>
    /\ calls' = calls \cup {IF pc = "instruments" THEN "provider" ELSE "store"}
    /\ failed' = failed + 1
    /\ idx' = idx + 1
    /\ outcome' = pc
    /\ pc' = "loop"
    /\ UNCHANGED <<env, sheets, now, successful, locals, runner>>

\* lines 195-201
Summary ==
    /\ pc = "summary"
    /\ pc' = "done"
    /\ UNCHANGED <<env, sheets, now, calls, counts, locals, outcome, runner>>

\* The process has ended; a later run starts against the same workbook.
NewRun ==
    /\ pc \in {"done", "closed", "fatal"}
    /\ pc' = "start"
    /\ now' \in InstantSamples
    /\ calls' = {}
    /\ idx' = 0 /\ successful' = 0 /\ failed' = 0
    /\ UNCHANGED <<env, sheets, locals, outcome, runner>>

Next ==
    \/ MarketCheck
    \/ SetupKite
    \/ SetupSheets
    \/ ForExpiry
    \/ OpenSheet
    \/ AddWorksheet
    \/ ReadSheet
    \/ FetchInstruments
    \/ FetchQuote
    \/ BuildRows
    \/ BatchClear
    \/ UpdateHeader
    \/ UpdateRows
    \/ ExpiryFails
    \/ Summary
    \/ NewRun

Spec == Init /\ [][Next]_vars

(***************************************************************************)
(* src/continuous_runner.py: the scheduler loop                            *)
(***************************************************************************)
SleepSeconds == 60

SleepTicks == (SleepSeconds * TicksPerMinute) \div 60

\* Longest run of the update process, in ticks
MaxRunTicks == 2

RoutineOff ==
    /\ EXPIRIES = <<>> /\ listed = <<>>
    /\ API_KEY = "set" /\ ACCESS_TOKEN = "set" /\ SHEET_ID = "set"
    /\ creds_file = TRUE
    /\ sheets = [n \in SheetNames |-> [exists |-> FALSE, cells |-> <<>>]]
    /\ now = 0
    /\ pc = "off"
    /\ calls = {}
    /\ idx = 0 /\ successful = 0 /\ failed = 0
    /\ existing_values = <<>>
    /\ prev_oi_dict = EmptyDict
    /\ nifty_options = <<>>
    /\ k = 0
    /\ option_chain = EmptyDict
    /\ fetch_count = 0
    /\ fetch_errors = 0
    /\ rows = <<>>
    /\ quotes = EmptyDict
    /\ outcome = "none"

\* The scheduler may be started at any instant of the week.
RunnerInit ==
    /\ RoutineOff
    /\ clock \in 0..(TicksPerWeek - 1)
    /\ rpc = "check"
    /\ child = "none"
    /\ launches = 0

\* lines 16-19: the top of an iteration
RunnerCheck ==
    /\ rpc = "check"
    /\ rpc' = IF ~is_market_open(clock) THEN "stopped" ELSE "run"
    /\ launches' = 0
    /\ UNCHANGED <<env, routine, clock, child>>

\* line 22: subprocess.run starts the update process ...
Launch ==
    /\ rpc = "run"
    /\ child' = "running"
    /\ launches' = launches + 1
    /\ rpc' = "wait"
    /\ UNCHANGED <<env, routine, clock>>

\* How a run of fetch_data.py started at instant t may end: "closed" (exit
\* status 0 at line 34), "done" (status 0 after the summary) or "fatal"
\* (an exception of lines 41, 50 or 56-57, status 1).
RunEndings(t) == IF MarketClosed(t) THEN {"closed"} ELSE {"done", "fatal"}

\* ... the update process runs and exits ...
ChildExit ==
    /\ child = "running"
    /\ child' \in RunEndings(clock)
    /\ \E d \in 0..MaxRunTicks : clock' = (clock + d) % TicksPerWeek
    /\ UNCHANGED <<env, routine, rpc, launches>>

\* Mutant of Reap: subprocess.run(..., check=True), where a non-zero exit
\* status raises and ends the loop.
ReapChecked ==
    /\ rpc = "wait"
    /\ child # "running"
    /\ rpc' = IF child = "fatal" THEN "stopped" ELSE "sleep"
    /\ UNCHANGED <<env, routine, clock, child, launches>>

\* ... and subprocess.run returns; the return code is not looked at.
Reap ==
    /\ rpc = "wait"
    /\ child # "running"
    /\ rpc' = "sleep"
    /\ UNCHANGED <<env, routine, clock, child, launches>>

\* line 25
Sleep ==
    /\ rpc = "sleep"
    /\ clock' = (clock + SleepTicks) % TicksPerWeek
    /\ rpc' = "check"
    /\ UNCHANGED <<env, routine, child, launches>>

RunnerNext ==
    \/ RunnerCheck
    \/ Launch
    \/ ChildExit
    \/ Reap
    \/ Sleep

RunnerSpec == RunnerInit /\ [][RunnerNext]_vars

(***************************************************************************)
(* Properties of the scheduler (checked under RunnerSpec)                  *)
(***************************************************************************)
\* The time of day of instant t in seconds, and the day of the week
SecondOfDay(t) == ((t % TicksPerDay) * 60) \div TicksPerMinute

DayOfWeek(t) == t \div TicksPerDay

\* Monday to Friday, 09:07:00 <= time <= 15:35:00
InSchedulerWindow(t) ==
    /\ DayOfWeek(t) \in {0, 1, 2, 3, 4}
    /\ 9 * 3600 + 7 * 60 <= SecondOfDay(t)
    /\ SecondOfDay(t) <= 15 * 3600 + 35 * 60

\* C3: is_market_open is true exactly on a weekday with 09:07 <= t <= 15:35,
\* both bounds inclusive: the loop goes on to run the update exactly at the
\* instants inside the window and stops exactly at those outside; true for
\* Monday 09:20, 09:07 and 15:35, false for Saturday and Sunday, for 08:59
\* and for 15:36.
C3_MarketOpenWindow ==
    /\ rpc = "run" => InSchedulerWindow(clock)
    /\ rpc = "stopped" => ~InSchedulerWindow(clock)
    /\ is_market_open(At(0, 9, 20))
    /\ is_market_open(At(0, 9, 7))
    /\ is_market_open(At(0, 15, 35))
    /\ ~is_market_open(At(0, 8, 59))
    /\ ~is_market_open(At(0, 15, 36))
    /\ ~is_market_open(At(5, 9, 20))
    /\ ~is_market_open(At(6, 15, 35))

\* C3 witness: the check passed at Monday 15:35:00, the inclusive bound.
C3_Witness == rpc = "run" /\ clock = At(0, 15, 35)

\* C2: the predicate is evaluated at the top of every iteration; false ends
\* the loop without a launch and nothing is launched afterwards; true
\* launches the update exactly once, waits for it, sleeps 60 seconds and
\* evaluates again; only the predicate turning false ends the loop, whatever
\* the update's exit status.
C2_Step ==
    /\ (rpc = "check" /\ ~InSchedulerWindow(clock))
          => (rpc' = "stopped" /\ child' = child /\ launches' = 0)
    /\ (rpc = "check" /\ InSchedulerWindow(clock)) => rpc' = "run"
    /\ rpc = "stopped" => (rpc' = "stopped" /\ child' = child /\ launches' = launches)
    /\ (rpc' = "stopped" /\ rpc # "stopped")
          => (rpc = "check" /\ ~InSchedulerWindow(clock))
    /\ (rpc = "wait" /\ child \in {"closed", "done", "fatal"}) => rpc' = "sleep"
    /\ rpc = "sleep"
          => (rpc' = "check" /\ SecondOfDay(clock') = (SecondOfDay(clock) + 60) % 86400)
    /\ launches' # launches => (rpc \in {"check", "run"} /\ launches' <= 1)

C2_State ==
    /\ rpc = "sleep" => (launches = 1 /\ child \in {"closed", "done", "fatal"})
    /\ rpc = "wait" => launches = 1
    /\ rpc \in {"check", "stopped"} => child # "running"
    /\ child = "running" => rpc = "wait"

C2_SchedulerLoop == [](C2_State) /\ [][C2_Step]_vars

\* C2 witness: the update exited with a non-zero status and the loop is in
\* its sleep, about to evaluate the predicate again.
C2_Witness == rpc = "sleep" /\ child = "fatal" /\ launches = 1

\* C10 (as claimed): whenever the scheduler's check passes and it launches
\* the update routine, the routine's own market-hours check at that instant
\* passes too, so no launched run exits as "market closed".
C10_LaunchedRunProceeds ==
    /\ rpc = "run" => ~MarketClosed(clock)
    /\ child # "closed"

(***************************************************************************)
(* Properties of the update routine (checked under Spec)                   *)
(***************************************************************************)
\* The expiry whose processing has just ended, and its worksheet's cells
Processed == pc = "loop" /\ outcome # "none"

Written == sheets[EXPIRIES[idx - 1][2]].cells

\* Reading the written table as a person would: the column under a label,
\* the data rows, the row of a strike.
ColumnOf(cells, label) == CHOOSE j \in 1..Len(cells[1]) : cells[1][j] = label

DataRowsOf(cells) == 2..Len(cells)

StrikeOfRow(cells, i) == ParseFloat(cells[i][ColumnOf(cells, LStrike)])

RowsOfStrike(cells, strike) ==
    {i \in DataRowsOf(cells) : StrikeOfRow(cells, i) = Good(strike)}

CellOf(cells, strike, label) ==
    cells[CHOOSE i \in RowsOfStrike(cells, strike) : TRUE][ColumnOf(cells, label)]

\* The quotes of this cycle: the contract of a token, the tokens whose
\* fetch succeeded, what each reported.
ContractOf(tok) ==
    CHOOSE c \in {listed[i] : i \in 1..Len(listed)} : c.instrument_token = tok

GotQuote(tok) ==
    /\ tok \in DOMAIN quotes
    /\ quotes[tok].status = "ok"
    /\ "last_price" \in DOMAIN quotes[tok].q

FetchedTokens == {tok \in DOMAIN quotes : GotQuote(tok)}

FetchedSides == {tok \in FetchedTokens : ContractOf(tok).instrument_type \in {"CE", "PE"}}

FetchedOI(tok) == IF "oi" \in DOMAIN quotes[tok].q THEN quotes[tok].q["oi"] ELSE 0

SideOf(tok) == IF ContractOf(tok).instrument_type = "CE" THEN "call" ELSE "put"

OILabel(side) == IF side = "call" THEN LCallOI ELSE LPutOI

ChgLabel(side) == IF side = "call" THEN LCallChgOI ELSE LPutChgOI

LtpLabel(side) == IF side = "call" THEN LCallLTP ELSE LPutLTP

VolLabel(side) == IF side = "call" THEN LCallVol ELSE LPutVol

\* The first row of the snapshot carries the label
Labelled(values, label) == \E j \in 1..Len(values[1]) : values[1][j] = label

LacksLabels(values) ==
    \/ values = <<>>
    \/ ~Labelled(values, LStrike)
    \/ ~Labelled(values, LCallOI)
    \/ ~Labelled(values, LPutOI)

\* A cell of OI as a number: empty counts as 0
ReadOI(cell) == IF cell = <<>> THEN Good(0) ELSE ParseInt(cell)

\* The OI the snapshot stores for a strike and side: that of its row for
\* the strike (the last, were there several), 0 when it has none.
StoredOI(values, strike, side) ==
    IF LacksLabels(values) \/ RowsOfStrike(values, strike) = {} THEN 0
    ELSE ReadOI(values[Max(RowsOfStrike(values, strike))]
                      [ColumnOf(values, OILabel(side))]).v

\* Every row the snapshot has for the strike is one a cycle of the routine
\* can have left: both OI cells are numbers or empty.
RowsReadable(values, strike) ==
    LacksLabels(values) \/
    \A i \in RowsOfStrike(values, strike) :
        /\ ReadOI(values[i][ColumnOf(values, LCallOI)]).ok
        /\ ReadOI(values[i][ColumnOf(values, LPutOI)]).ok

\* C1: for every strike and side whose quote was fetched, the written
\* chg_oi is the OI fetched in this cycle minus the OI the table, as read
\* at the start of the cycle, stored for that strike and side, and minus 0
\* when the table has no row for the strike.
C1_ChgOIAgainstSnapshot ==
    (Processed /\ outcome = "ok") =>
        \A tok \in FetchedSides :
            LET strike == ContractOf(tok).strike
                side == SideOf(tok)
            IN  RowsReadable(existing_values, strike) =>
                  /\ RowsOfStrike(Written, strike) # {}
                  /\ CellOf(Written, strike, ChgLabel(side))
                        = IntToStr(FetchedOI(tok) - StoredOI(existing_values, strike, side))

\* C1 witness: the worked example.  Contracts 100 CE, 100 PE and 110 CE
\* with OI 50, 30, 20 over the prior table {100: call 40, put 25} are
\* written with chg_oi 10 and 5 for strike 100 and 20 for strike 110.
C1_Witness ==
    /\ Processed /\ outcome = "ok"
    /\ FetchedTokens = {1, 2, 3}
    /\ FetchedOI(1) = 50 /\ FetchedOI(2) = 30 /\ FetchedOI(3) = 20
    /\ StoredOI(existing_values, 100, "call") = 40
    /\ StoredOI(existing_values, 100, "put") = 25
    /\ RowsOfStrike(existing_values, 110) = {}
    /\ CellOf(Written, 100, LCallChgOI) = <<"1", "0">>
    /\ CellOf(Written, 100, LPutChgOI) = <<"5">>
    /\ CellOf(Written, 110, LCallChgOI) = <<"2", "0">>

KiteValueMissing ==
    API_KEY \in {"unset", "empty"} \/ ACCESS_TOKEN \in {"unset", "empty"}

\* Monday to Friday, 09:10:00 <= time <= 15:35:00
InRoutineWindow(t) ==
    /\ DayOfWeek(t) \in {0, 1, 2, 3, 4}
    /\ 9 * 3600 + 10 * 60 <= SecondOfDay(t)
    /\ SecondOfDay(t) <= 15 * 3600 + 35 * 60

\* C5 (as claimed): a run in which API_KEY or ACCESS_TOKEN is missing ends
\* in a fatal error before any call to the quote provider or the store; no
\* such run ends normally.
C5_MissingKeyNeverEndsNormally ==
    KiteValueMissing => (calls = {} /\ pc \notin {"closed", "done"})

\* C5 (amended): a run in which API_KEY or ACCESS_TOKEN is missing makes no
\* call to the quote provider or the store and never reaches the expiries;
\* it ends in the fatal error when its market-hours check passes, and ends
\* normally, as "market closed", only when that check fails.
C5_MissingKeyFatalWhenOpen ==
    KiteValueMissing =>
        /\ calls = {}
        /\ pc \in {"start", "kite", "fatal", "closed"}
        /\ pc = "closed" => ~InRoutineWindow(now)
        /\ pc \in {"kite", "fatal"} => InRoutineWindow(now)

\* C5 witness: only ACCESS_TOKEN is missing, the market is open, and the
\* run has ended in the fatal error.
C5_Witness ==
    pc = "fatal" /\ API_KEY = "set" /\ ACCESS_TOKEN = "empty" /\ InRoutineWindow(now)

TokensOf(seq, n) == {seq[i].instrument_token : i \in 1..n}

\* C6: a failed quote fetch is recorded and the loop goes on with the
\* remaining instruments of the expiry; the failure does not fail the
\* expiry, the table is still written, and every call or put whose fetch
\* succeeded has its price, OI and volume in its strike's row.
C6_State ==
    /\ pc = "quote" =>
          /\ fetch_count = k - 1
          /\ DOMAIN quotes = TokensOf(nifty_options, k - 1)
          /\ fetch_errors = Cardinality((DOMAIN quotes) \ FetchedTokens)
    /\ (Processed /\ outcome = "ok") =>
          /\ DOMAIN quotes = TokensOf(nifty_options, Len(nifty_options))
          /\ fetch_count = Len(nifty_options)
          /\ fetch_errors = Cardinality((DOMAIN quotes) \ FetchedTokens)
          /\ \A tok \in FetchedSides :
                LET strike == ContractOf(tok).strike
                    side == SideOf(tok)
                IN  /\ RowsOfStrike(Written, strike) # {}
                    /\ CellOf(Written, strike, LtpLabel(side))
                          = IntToStr(quotes[tok].q["last_price"])
                    /\ CellOf(Written, strike, OILabel(side)) = IntToStr(FetchedOI(tok))
                    /\ CellOf(Written, strike, VolLabel(side))
                          = IntToStr(IF "volume" \in DOMAIN quotes[tok].q
                                     THEN quotes[tok].q["volume"] ELSE 0)

C6_Step ==
    pc = "quote" =>
        /\ pc' \in {"quote", "clear"}
        /\ failed' = failed /\ successful' = successful /\ outcome' = outcome
        /\ pc' = "quote" => (k' = k + 1 \/ k' = k)

C6_FetchErrorsSkipped == [](C6_State) /\ [][C6_Step]_vars

\* C6 witness: the fetch of 100 CE failed, those of 110 CE and 100 PE
\* succeeded, and the expiry was processed successfully.
C6_Witness ==
    /\ Processed /\ outcome = "ok" /\ successful = 1
    /\ fetch_errors = 1
    /\ DOMAIN quotes = {1, 2, 3}
    /\ FetchedSides = {2, 3}

ExpirySteps == {"open", "read", "instruments", "quote", "clear", "header", "rows"}

\* C7: a failure while processing one expiry is caught and counted and the
\* routine goes on with the next expiry; at the summary every configured
\* expiry has been counted exactly once: successful + failed is the number
\* of configured expiries.
C7_State ==
    /\ pc \in ExpirySteps \cup {"loop"} => successful + failed = idx - 1
    /\ pc \in ExpirySteps => idx <= Len(EXPIRIES)
    /\ pc \in {"summary", "done"} =>
          (successful + failed = Len(EXPIRIES) /\ idx = Len(EXPIRIES) + 1)

C7_Step ==
    /\ pc \in ExpirySteps => pc' \in ExpirySteps \cup {"loop"}
    /\ (pc \in ExpirySteps /\ pc' = "loop") =>
          /\ idx' = idx + 1
          /\ \/ outcome' = "ok" /\ successful' = successful + 1 /\ failed' = failed
             \/ outcome' \in ExpirySteps \cup {"load"}
                  /\ failed' = failed + 1 /\ successful' = successful
    /\ pc = "loop" =>
          (pc' = IF idx <= Len(EXPIRIES) THEN "open" ELSE "summary")
    /\ pc = "summary" => (successful' = successful /\ failed' = failed)

C7_EveryExpiryCounted == [](C7_State) /\ [][C7_Step]_vars

\* C7 witness: with two expiries configured, one failed, the other was
\* processed successfully, and the run has printed its summary.
C7_Witness ==
    /\ pc = "done" /\ Len(EXPIRIES) = 2
    /\ failed = 1 /\ successful = 1

\* The snapshot has been read in the processing of the current expiry
SnapshotRead ==
    \/ pc \in {"instruments", "quote", "clear", "header", "rows"}
    \/ Processed /\ outcome \notin {"open", "read"}

\* C8: when the table as read is empty or its first row lacks any of the
\* labels Strike, Call OI, Put OI, loading the previous OI does not fail,
\* the mapping is empty, and every chg_oi of the cycle is the fetched OI.
C8_NoLabelsNoPrevious ==
    (SnapshotRead /\ LacksLabels(existing_values)) =>
        /\ outcome # "load"
        /\ prev_oi_dict = EmptyDict
        /\ \A strike \in DOMAIN option_chain : \A side \in {"call", "put"} :
              option_chain[strike][side] # EmptyDict =>
                 option_chain[strike][side]["chg_oi"] = option_chain[strike][side]["oi"]
        /\ outcome = "ok" =>
              \A tok \in FetchedSides :
                 CellOf(Written, ContractOf(tok).strike, ChgLabel(SideOf(tok)))
                    = IntToStr(FetchedOI(tok))

\* C8 witness: the table read had a first row without "Put OI" and a row
\* for strike 100 with a call OI of 40; 100 CE was fetched with OI 50 and
\* the expiry was processed successfully.
C8_Witness ==
    /\ Processed /\ outcome = "ok"
    /\ Len(existing_values) = 2
    /\ Labelled(existing_values, LStrike)
    /\ ~Labelled(existing_values, LPutOI)
    /\ 1 \in FetchedTokens /\ FetchedOI(1) = 50

\* round(put / call, 2) in hundredths, ties to even
RoundHundredths(put, call) ==
    LET q == (100 * put) \div call
        r == (100 * put) % call
    IN  IF 2 * r > call \/ (2 * r = call /\ q % 2 = 1) THEN q + 1 ELSE q

\* The text of h hundredths: "0.6", "1.25", "2"
HundredthsText(h) ==
    IntToStr(h \div 100) \o
       (IF h % 100 = 0 THEN <<>>
        ELSE IF h % 10 = 0 THEN <<".">> \o NatToStr((h % 100) \div 10)
        ELSE <<".", DigitChars[((h % 100) \div 10) + 1], DigitChars[(h % 10) + 1]>>)

PcrText(put, call) ==
    IF call > 0 THEN HundredthsText(RoundHundredths(put, call)) ELSE <<"0">>

RowsPrepared == pc \in {"clear", "header", "rows"} \/ (Processed /\ outcome = "ok")

\* C9 (as claimed): in every output row the PCR value is
\* round(put OI / call OI, 2) when the call OI is greater than 0, else 0.
C9_RowsCarryPCR ==
    RowsPrepared =>
        \A i \in 1..Len(rows) :
            /\ Len(rows[i]) >= 11
            /\ Format(rows[i][11]) = PcrText(rows[i][8].n, rows[i][2].n)

\* C9 (amended): every output row has eleven columns, the eleventh, under
\* the header VWAP, an empty placeholder; the routine writes no PCR value.
C9_EleventhColumnEmpty ==
    /\ RowsPrepared =>
          \A i \in 1..Len(rows) : Len(rows[i]) = 11 /\ rows[i][11] = Str(<<>>)
    /\ (Processed /\ outcome = "ok") =>
          /\ Len(Written[1]) >= 11 /\ Written[1][11] = LVWAP
          /\ \A i \in DataRowsOf(Written) : Len(Written[i]) = 11 /\ Written[i][11] = <<>>

\* C9 witness: a row with call OI 50 and put OI 30 has been written.
C9_Witness ==
    /\ Processed /\ outcome = "ok"
    /\ {1, 2} \subseteq FetchedTokens
    /\ CellOf(Written, 100, LCallOI) = <<"5", "0">>
    /\ CellOf(Written, 100, LPutOI) = <<"3", "0">>

=============================================================================
